---- MODULE Spec2Model ----
(***************************************************************************)
(* parts-tracker-plus-db: the form-input validation layer and three UI     *)
(* components (ComboBox, FadeInImage, NewUserConfirmModal), each with its  *)
(* own part of the state and its own specification.                        *)
(*                                                                         *)
(* Validation layer                                                        *)
(* (src/utils/validationUtils.js): the field validators validateCurrency,  *)
(* validatePositiveInteger, validateYear, validateOdometer and the         *)
(* composite validators validatePartCosts and validateBudget, together     *)
(* with the toast notification sink the composite validators warn through. *)
(*                                                                         *)
(* JavaScript values are modelled as tagged records.  A Number is kept as  *)
(* an exact decimal (sign, integer digits, fraction digits) or NaN or an   *)
(* infinity, so that values beyond the checker's machine integers (1e21)   *)
(* are representable; the raw inputs the actions draw are decimals an      *)
(* IEEE-754 double holds exactly or prints back unchanged, for which the   *)
(* decimal arithmetic below coincides with the double arithmetic of the    *)
(* runtime.  Numbers are compared as === compares them, under which +0    *)
(* and -0 are one value: the model keeps a single zero.                    *)
(***************************************************************************)
EXTENDS Integers, Sequences, FiniteSets

VARIABLES currentYear, locale, sink, call, combo, image, modal

\* The state of the validation layer.
validation == <<currentYear, locale, sink, call>>

vars == <<currentYear, locale, sink, call, combo, image, modal>>

----------------------------------------------------------------------------
(* Digits and digit sequences *)

DigitChars == <<"0", "1", "2", "3", "4", "5", "6", "7", "8", "9">>

IsDigit(c) == \E i \in 1..10 : DigitChars[i] = c

DigitVal(c) == (CHOOSE i \in 1..10 : DigitChars[i] = c) - 1

DigitChar(d) == DigitChars[d + 1]

Zeros(n) == [i \in 1..n |-> 0]

RECURSIVE StripLeadingZeros(_)
StripLeadingZeros(ds) ==
  IF ds = <<>> THEN <<>>
  ELSE IF Head(ds) = 0 THEN StripLeadingZeros(Tail(ds))
  ELSE ds

RECURSIVE StripTrailingZeros(_)
StripTrailingZeros(ds) ==
  IF ds = <<>> THEN <<>>
  ELSE IF ds[Len(ds)] = 0 THEN StripTrailingZeros(SubSeq(ds, 1, Len(ds) - 1))
  ELSE ds

\* Number of zeros a digit sequence starts with.
RECURSIVE LeadingZeros(_)
LeadingZeros(ds) ==
  IF ds = <<>> \/ Head(ds) # 0 THEN 0 ELSE 1 + LeadingZeros(Tail(ds))

\* The decimal digits of a natural number of the checker, most significant first.
RECURSIVE NatDigits(_)
NatDigits(i) == IF i = 0 THEN <<>> ELSE Append(NatDigits(i \div 10), i % 10)

\* The natural number a (short) digit sequence denotes.
RECURSIVE DigitsToNat(_)
DigitsToNat(ds) ==
  IF ds = <<>> THEN 0 ELSE 10 * DigitsToNat(SubSeq(ds, 1, Len(ds) - 1)) + ds[Len(ds)]

\* Lexicographic order on digit sequences of equal length.
LexLess(a, b) ==
  \E i \in 1..Len(a) : a[i] < b[i] /\ \A j \in 1..(i - 1) : a[j] = b[j]

Max2(a, b) == IF a >= b THEN a ELSE b

Drop(cs, n) == SubSeq(cs, n + 1, Len(cs))

----------------------------------------------------------------------------
(* JavaScript Numbers *)

NaN == [t |-> "nan"]

Inf(neg) == [t |-> "inf", neg |-> neg]

Infinity == Inf(FALSE)

\* A finite number from its sign, integer digits and fraction digits.
Normal(neg, ip, fp) ==
  [t |-> "fin", neg |-> (neg /\ ~(ip = <<>> /\ fp = <<>>)), ip |-> ip, fp |-> fp]

Fin(neg, ip, fp) == Normal(neg, StripLeadingZeros(ip), StripTrailingZeros(fp))

\* An integer literal of the source as a Number.
Num(i) == IF i < 0 THEN Fin(TRUE, NatDigits(0 - i), <<>>) ELSE Fin(FALSE, NatDigits(i), <<>>)

IsZero(x) == x.t = "fin" /\ x.ip = <<>> /\ x.fp = <<>>

\* |a| < |b| for finite a, b.
MagLess(a, b) ==
  IF Len(a.ip) # Len(b.ip) THEN Len(a.ip) < Len(b.ip)
  ELSE IF a.ip # b.ip THEN LexLess(a.ip, b.ip)
  ELSE LET n == Max2(Len(a.fp), Len(b.fp))
       IN  LexLess(a.fp \o Zeros(n - Len(a.fp)), b.fp \o Zeros(n - Len(b.fp)))

\* isNaN(x)
isNaN(x) == x.t = "nan"

\* The relational operator a < b on Numbers (false when either is NaN).
Lt(a, b) ==
  CASE a.t = "nan" \/ b.t = "nan" -> FALSE
    [] a.t = "inf" /\ b.t = "inf" -> a.neg /\ ~b.neg
    [] a.t = "inf" -> a.neg
    [] b.t = "inf" -> ~b.neg
    [] OTHER ->
         IF a.neg /\ ~b.neg THEN TRUE
         ELSE IF ~a.neg /\ b.neg THEN FALSE
         ELSE IF a.neg THEN MagLess(b, a)
         ELSE MagLess(a, b)

\* a > b
Gt(a, b) == Lt(b, a)

\* a <= b as mathematics has it, for the statements of properties.
Le(a, b) == a.t # "nan" /\ b.t # "nan" /\ ~Lt(b, a)

\* Sum and difference of two digit sequences of equal length, as a sequence one
\* digit longer (the carry in front), least significant digit last.
RECURSIVE AddDigits(_, _, _)
AddDigits(a, b, carry) ==
  IF a = <<>> THEN <<carry>>
  ELSE LET n == Len(a)
           s == a[n] + b[n] + carry
       IN  Append(AddDigits(SubSeq(a, 1, n - 1), SubSeq(b, 1, n - 1), s \div 10), s % 10)

\* a - b for digit sequences of equal length with a >= b.
RECURSIVE SubDigits(_, _, _)
SubDigits(a, b, borrow) ==
  IF a = <<>> THEN <<>>
  ELSE LET n == Len(a)
           d == a[n] - b[n] - borrow
       IN  Append(SubDigits(SubSeq(a, 1, n - 1), SubSeq(b, 1, n - 1), IF d < 0 THEN 1 ELSE 0),
                  IF d < 0 THEN d + 10 ELSE d)

\* The sum of the digits s, of which ni + 1 are integer digits.
Summed(neg, s, ni) == Fin(neg, SubSeq(s, 1, ni + 1), Drop(s, ni + 1))

\* The difference of the digits s, of which ni are integer digits.
Differed(neg, s, ni) == Fin(neg, SubSeq(s, 1, ni), Drop(s, ni))

\* a + b for finite a, b whose digits da, db are aligned at the decimal point.
AddAligned(a, b, da, db, ni) ==
  IF a.neg = b.neg THEN Summed(a.neg, AddDigits(da, db, 0), ni)
  ELSE IF MagLess(a, b) THEN Differed(b.neg, SubDigits(db, da, 0), ni)
  ELSE Differed(a.neg, SubDigits(da, db, 0), ni)

AddFinite(a, b, ni, nf) ==
  AddAligned(a, b,
             Zeros(ni - Len(a.ip)) \o a.ip \o a.fp \o Zeros(nf - Len(a.fp)),
             Zeros(ni - Len(b.ip)) \o b.ip \o b.fp \o Zeros(nf - Len(b.fp)), ni)

\* The operator a + b on Numbers.
Add(a, b) ==
  CASE a.t = "nan" \/ b.t = "nan" -> NaN
    [] a.t = "inf" /\ b.t = "inf" -> IF a.neg = b.neg THEN a ELSE NaN
    [] a.t = "inf" -> a
    [] b.t = "inf" -> b
    [] OTHER -> AddFinite(a, b, Max2(Len(a.ip), Len(b.ip)), Max2(Len(a.fp), Len(b.fp)))

----------------------------------------------------------------------------
(* JavaScript values and strings.  A string whose characters are read is a  *)
(* sequence of one-character strings; a message is a TLA+ string.           *)

Undefined == [k |-> "undefined"]

Null == [k |-> "null"]

Str(cs) == [k |-> "string", chars |-> cs]

Number(n) == [k |-> "number", n |-> n]

Msg(text) == [k |-> "string", text |-> text]

WhiteSpace == {" ", "\t", "\n"}

Chars(ds) == [i \in 1..Len(ds) |-> DigitChar(ds[i])]

\* The characters of a template literal's parts as one message text.
RECURSIVE Join(_)
Join(cs) == IF cs = <<>> THEN "" ELSE Head(cs) \o Join(Tail(cs))

\* Number::toString(x), radix 10.
RECURSIVE NumberToString(_)
NumberToString(x) ==
  CASE x.t = "nan" -> <<"N", "a", "N">>
    [] x.t = "inf" ->
         (IF x.neg THEN <<"-">> ELSE <<>>) \o <<"I", "n", "f", "i", "n", "i", "t", "y">>
    [] IsZero(x) -> <<"0">>
    [] x.t = "fin" /\ ~IsZero(x) /\ x.neg ->
         <<"-">> \o NumberToString([x EXCEPT !.neg = FALSE])
    [] OTHER ->
         LET n == IF x.ip # <<>> THEN Len(x.ip) ELSE 0 - LeadingZeros(x.fp)
             s == StripTrailingZeros(StripLeadingZeros(x.ip \o x.fp))
             e == n - 1
         IN  IF 0 < n /\ n <= 21
             THEN Chars(x.ip) \o (IF x.fp = <<>> THEN <<>> ELSE <<".">> \o Chars(x.fp))
             ELSE IF -6 < n /\ n <= 0
             THEN <<"0", ".">> \o Chars(x.fp)
             ELSE <<DigitChar(s[1])>>
                  \o (IF Len(s) > 1 THEN <<".">> \o Chars(Tail(s)) ELSE <<>>)
                  \o <<"e", IF e < 0 THEN "-" ELSE "+">>
                  \o Chars(NatDigits(IF e < 0 THEN 0 - e ELSE e))

\* ToString(v) of a JavaScript value.
ToString(v) ==
  CASE v.k = "string" -> v.chars
    [] v.k = "number" -> NumberToString(v.n)
    [] v.k = "null" -> <<"n", "u", "l", "l">>
    [] OTHER -> <<"u", "n", "d", "e", "f", "i", "n", "e", "d">>

RECURSIVE TrimStart(_)
TrimStart(cs) ==
  IF cs # <<>> /\ Head(cs) \in WhiteSpace THEN TrimStart(Tail(cs)) ELSE cs

\* The longest prefix of decimal digits, as digits.
RECURSIVE TakeDigits(_)
TakeDigits(cs) ==
  IF cs # <<>> /\ IsDigit(Head(cs)) THEN <<DigitVal(Head(cs))>> \o TakeDigits(Tail(cs))
  ELSE <<>>

StartsWith(cs, p) == Len(cs) >= Len(p) /\ SubSeq(cs, 1, Len(p)) = p

\* Largest and smallest decimal exponents of a finite, non-zero double.
MaxDoubleDigits == 309

MinDoubleExponent == -324

\* The Number with decimal digits ds and the decimal point after the p-th
\* digit (p may lie outside the digits); beyond the range of a double the
\* value is an infinity, below it zero.
Decimal(neg, ds, p) ==
  LET n == p - LeadingZeros(ds)
  IN  IF StripLeadingZeros(ds) = <<>> THEN Fin(FALSE, <<>>, <<>>)
      ELSE IF n > MaxDoubleDigits THEN Inf(neg)
      ELSE IF n < MinDoubleExponent THEN Fin(FALSE, <<>>, <<>>)
      ELSE IF p <= 0 THEN Fin(neg, <<>>, Zeros(0 - p) \o ds)
      ELSE IF p >= Len(ds) THEN Fin(neg, ds \o Zeros(p - Len(ds)), <<>>)
      ELSE Fin(neg, SubSeq(ds, 1, p), Drop(ds, p))

\* The digits after an exponent indicator, signed; 0 when there are none.
ExponentPart(r) ==
  IF r # <<>> /\ Head(r) \in {"+", "-"}
  THEN IF Head(r) = "-" THEN 0 - DigitsToNat(TakeDigits(Tail(r)))
       ELSE DigitsToNat(TakeDigits(Tail(r)))
  ELSE DigitsToNat(TakeDigits(r))

\* The literal's value from its integer digits ip, fraction digits fp and
\* the text r that follows them.
ParseExponent(neg, ip, fp, r) ==
  IF ip = <<>> /\ fp = <<>> THEN NaN
  ELSE IF r # <<>> /\ Head(r) \in {"e", "E"}
  THEN Decimal(neg, ip \o fp, Len(ip) + ExponentPart(Tail(r)))
  ELSE Decimal(neg, ip \o fp, Len(ip))

ParseFraction(neg, ip, r) ==
  IF r # <<>> /\ Head(r) = "."
  THEN ParseExponent(neg, ip, TakeDigits(Tail(r)), Drop(r, 1 + Len(TakeDigits(Tail(r)))))
  ELSE ParseExponent(neg, ip, <<>>, r)

ParseUnsigned(neg, r) ==
  IF StartsWith(r, <<"I", "n", "f", "i", "n", "i", "t", "y">>) THEN Inf(neg)
  ELSE ParseFraction(neg, TakeDigits(r), Drop(r, Len(TakeDigits(r))))

ParseSigned(t) ==
  IF t # <<>> /\ Head(t) \in {"+", "-"} THEN ParseUnsigned(Head(t) = "-", Tail(t))
  ELSE ParseUnsigned(FALSE, t)

\* parseFloat(v): the longest prefix of the trimmed string that is a
\* StrDecimalLiteral (sign, then Infinity or digits with an optional
\* fraction and exponent), NaN when there is none.
parseFloat(v) == ParseSigned(TrimStart(ToString(v)))

ParseDigits(neg, ds) == IF ds = <<>> THEN NaN ELSE Decimal(neg, ds, Len(ds))

ParseIntSigned(t) ==
  IF t # <<>> /\ Head(t) \in {"+", "-"} THEN ParseDigits(Head(t) = "-", TakeDigits(Tail(t)))
  ELSE ParseDigits(FALSE, TakeDigits(t))

\* parseInt(v, 10): the longest prefix of decimal digits of the trimmed,
\* sign-stripped string, NaN when there is none.
parseInt(v) == ParseIntSigned(TrimStart(ToString(v)))

----------------------------------------------------------------------------
(* Number.prototype.toLocaleString() under the runtime's locale *)

Locales == {"en-US", "de-DE"}

GroupSeparator(loc) == IF loc = "en-US" THEN "," ELSE "."

DecimalSeparator(loc) == IF loc = "en-US" THEN "." ELSE ","

\* Digits in groups of three from the right.
RECURSIVE Group(_, _)
Group(cs, sep) ==
  IF Len(cs) <= 3 THEN cs
  ELSE Group(SubSeq(cs, 1, Len(cs) - 3), sep) \o <<sep>> \o SubSeq(cs, Len(cs) - 2, Len(cs))

\* Intl's default of at most three fraction digits, ties away from zero.
MaxFractionDigits == 3

RoundFraction(x) ==
  IF Len(x.fp) <= MaxFractionDigits THEN x
  ELSE LET t == Fin(x.neg, x.ip, SubSeq(x.fp, 1, MaxFractionDigits))
           u == Fin(x.neg, <<>>, Zeros(MaxFractionDigits - 1) \o <<1>>)
       IN  IF x.fp[MaxFractionDigits + 1] >= 5 THEN Add(t, u) ELSE t

toLocaleString(x, loc) ==
  CASE x.t = "nan" -> <<"N", "a", "N">>
    [] x.t = "inf" -> (IF x.neg THEN <<"-">> ELSE <<>>) \o <<"U+221E">>
    [] OTHER ->
         LET r == RoundFraction(x)
         IN  (IF r.neg THEN <<"-">> ELSE <<>>)
             \o Group(IF r.ip = <<>> THEN <<"0">> ELSE Chars(r.ip), GroupSeparator(loc))
             \o (IF r.fp = <<>> THEN <<>> ELSE <<DecimalSeparator(loc)>> \o Chars(r.fp))

----------------------------------------------------------------------------
(* Field validators *)

\* A parameter's default value, taken when the argument is undefined.
Default(arg, dflt) == IF arg.k = "undefined" THEN dflt ELSE arg

Bool(b) == [k |-> "boolean", b |-> b]

\* An options object; a property that is not given reads as undefined.
Options(min, max, allowEmpty) ==
  [k |-> "object", min |-> min, max |-> max, allowEmpty |-> allowEmpty]

EmptyObject == Options(Undefined, Undefined, Undefined)

\* Mutant: the emptiness test without undefined (value === '' || value === null).
IsEmptyInputDefined(value) ==
  \/ (value.k = "string" /\ value.chars = <<>>)
  \/ value.k = "null"

IsEmptyInput(value) ==
  \/ (value.k = "string" /\ value.chars = <<>>)
  \/ value.k = "null"
  \/ value.k = "undefined"

Result(isValid, value, error) == [isValid |-> isValid, value |-> value, error |-> error]

\* The ceiling of a currency amount.
MaxCurrency == 1000000000

\* Mutant: the too-large branch keeps the parsed value instead of 0.
validateCurrencyKeepsValue(value, fieldName) ==
  LET name   == Default(fieldName, Msg("Value")).text
      parsed == parseFloat(value)
  IN  IF IsEmptyInput(value) THEN Result(TRUE, Number(Num(0)), Null)
      ELSE IF isNaN(parsed)
      THEN Result(FALSE, Number(Num(0)), Msg(name \o " must be a valid number"))
      ELSE IF Lt(parsed, Num(0))
      THEN Result(FALSE, Number(Num(0)), Msg(name \o " cannot be negative"))
      ELSE IF Gt(parsed, Num(MaxCurrency))
      THEN Result(FALSE, Number(parsed), Msg(name \o " exceeds maximum allowed value"))
      ELSE Result(TRUE, Number(parsed), Null)

\* Mutant: the ceiling itself is rejected (parsed >= 1000000000).
validateCurrencyExclusiveMax(value, fieldName) ==
  LET name   == Default(fieldName, Msg("Value")).text
      parsed == parseFloat(value)
  IN  IF IsEmptyInput(value) THEN Result(TRUE, Number(Num(0)), Null)
      ELSE IF isNaN(parsed)
      THEN Result(FALSE, Number(Num(0)), Msg(name \o " must be a valid number"))
      ELSE IF Lt(parsed, Num(0))
      THEN Result(FALSE, Number(Num(0)), Msg(name \o " cannot be negative"))
      ELSE IF ~Lt(parsed, Num(MaxCurrency))
      THEN Result(FALSE, Number(Num(0)), Msg(name \o " exceeds maximum allowed value"))
      ELSE Result(TRUE, Number(parsed), Null)

validateCurrency(value, fieldName) ==
  LET name   == Default(fieldName, Msg("Value")).text
      parsed == parseFloat(value)
  IN  IF IsEmptyInput(value) THEN Result(TRUE, Number(Num(0)), Null)
      ELSE IF isNaN(parsed)
      THEN Result(FALSE, Number(Num(0)), Msg(name \o " must be a valid number"))
      ELSE IF Lt(parsed, Num(0))
      THEN Result(FALSE, Number(Num(0)), Msg(name \o " cannot be negative"))
      ELSE IF Gt(parsed, Num(MaxCurrency))
      THEN Result(FALSE, Number(Num(0)), Msg(name \o " exceeds maximum allowed value"))
      ELSE Result(TRUE, Number(parsed), Null)

DefaultMin == 0

\* Mutant: the upper bound is tested before the lower bound.
validatePositiveIntegerMaxFirst(value, fieldName, options, loc) ==
  LET name       == Default(fieldName, Msg("Value")).text
      opts       == Default(options, EmptyObject)
      min        == Default(opts.min, Number(Num(DefaultMin))).n
      max        == Default(opts.max, Number(Infinity)).n
      allowEmpty == Default(opts.allowEmpty, Bool(TRUE)).b
      parsed     == parseInt(value)
  IN  IF IsEmptyInput(value)
      THEN IF allowEmpty THEN Result(TRUE, Null, Null)
           ELSE Result(FALSE, Null, Msg(name \o " is required"))
      ELSE IF isNaN(parsed)
      THEN Result(FALSE, Null, Msg(name \o " must be a valid number"))
      ELSE IF Gt(parsed, max)
      THEN Result(FALSE, Null,
                  Msg(name \o " must be at most " \o Join(toLocaleString(max, loc))))
      ELSE IF Lt(parsed, min)
      THEN Result(FALSE, Null,
                  Msg(name \o " must be at least " \o Join(NumberToString(min))))
      ELSE Result(TRUE, Number(parsed), Null)

validatePositiveInteger(value, fieldName, options, loc) ==
  LET name       == Default(fieldName, Msg("Value")).text
      opts       == Default(options, EmptyObject)
      min        == Default(opts.min, Number(Num(DefaultMin))).n
      max        == Default(opts.max, Number(Infinity)).n
      allowEmpty == Default(opts.allowEmpty, Bool(TRUE)).b
      parsed     == parseInt(value)
  IN  IF IsEmptyInput(value)
      THEN IF allowEmpty THEN Result(TRUE, Null, Null)
           ELSE Result(FALSE, Null, Msg(name \o " is required"))
      ELSE IF isNaN(parsed)
      THEN Result(FALSE, Null, Msg(name \o " must be a valid number"))
      ELSE IF Lt(parsed, min)
      THEN Result(FALSE, Null,
                  Msg(name \o " must be at least " \o Join(NumberToString(min))))
      ELSE IF Gt(parsed, max)
      THEN Result(FALSE, Null,
                  Msg(name \o " must be at most " \o Join(toLocaleString(max, loc))))
      ELSE Result(TRUE, Number(parsed), Null)

MinYear == 1900

YearsAhead == 2

\* Mutant: only next year's models are allowed (currentYear + 1).
validateYearOneAhead(value, fieldName, year, loc) ==
  validatePositiveInteger(value, Default(fieldName, Msg("Year")),
                          Options(Number(Num(MinYear)), Number(Num(year + 1)),
                                  Bool(TRUE)), loc)

\* year is what new Date().getFullYear() returns at the call.
validateYear(value, fieldName, year, loc) ==
  validatePositiveInteger(value, Default(fieldName, Msg("Year")),
                          Options(Number(Num(MinYear)), Number(Num(year + YearsAhead)),
                                  Bool(TRUE)), loc)

MinOdometer == 0

MaxOdometer == 10000000

validateOdometer(value, fieldName, loc) ==
  validatePositiveInteger(value, Default(fieldName, Msg("Odometer")),
                          Options(Number(Num(MinOdometer)), Number(Num(MaxOdometer)),
                                  Bool(TRUE)), loc)

----------------------------------------------------------------------------
(* The notification sink and the composite validators *)

\* The toast object of the application: it has a warning method.
Toast == [k |-> "object", warning |-> TRUE]

\* A completed call: what it returned and the warnings it delivered.
Return(ret, warned) == [threw |-> FALSE, result |-> ret, warned |-> warned]

\* A call that raised instead of returning.
Throw(what) == [threw |-> TRUE, error |-> what, warned |-> <<>>]

\* Mutant: the call without the optional chain, toast.warning(message).
WarnAndReturnUnguarded(toast, message, ret) ==
  IF toast.k = "object" /\ toast.warning THEN Return(ret, <<message>>)
  ELSE Throw("TypeError")

\* toast?.warning(message); return ret
\* The optional chain skips the call when toast is null or undefined; calling
\* a warning that is no function is a TypeError.
WarnAndReturn(toast, message, ret) ==
  IF toast.k \in {"null", "undefined"} THEN Return(ret, <<>>)
  ELSE IF toast.k = "object" /\ toast.warning THEN Return(ret, <<message>>)
  ELSE Throw("TypeError")

\* A costs object; a property that is not given reads as undefined.
Costs(price, shipping, duties) ==
  [k |-> "object", price |-> price, shipping |-> shipping, duties |-> duties]

\* Mutant: duties are validated before shipping.
validatePartCostsDutiesFirst(costs, toast) ==
  IF costs.k \in {"null", "undefined"} THEN Throw("TypeError")
  ELSE
  LET priceResult    == validateCurrency(costs.price, Msg("Price"))
      shippingResult == validateCurrency(costs.shipping, Msg("Shipping"))
      dutiesResult   == validateCurrency(costs.duties, Msg("Duties"))
      total          == Add(Add(priceResult.value.n, shippingResult.value.n),
                            dutiesResult.value.n)
  IN  IF ~priceResult.isValid
      THEN WarnAndReturn(toast, priceResult.error, [isValid |-> FALSE, values |-> Null])
      ELSE IF ~dutiesResult.isValid
      THEN WarnAndReturn(toast, dutiesResult.error, [isValid |-> FALSE, values |-> Null])
      ELSE IF ~shippingResult.isValid
      THEN WarnAndReturn(toast, shippingResult.error, [isValid |-> FALSE, values |-> Null])
      ELSE Return([isValid |-> TRUE,
                   values  |-> [k        |-> "object",
                                price    |-> priceResult.value,
                                shipping |-> shippingResult.value,
                                duties   |-> dutiesResult.value,
                                total    |-> Number(total)]], <<>>)

\* Mutant: the total is summed over the raw inputs, not the normalized values.
validatePartCostsTotalOfRaw(costs, toast) ==
  IF costs.k \in {"null", "undefined"} THEN Throw("TypeError")
  ELSE
  LET priceResult    == validateCurrency(costs.price, Msg("Price"))
      shippingResult == validateCurrency(costs.shipping, Msg("Shipping"))
      dutiesResult   == validateCurrency(costs.duties, Msg("Duties"))
      total          == Add(Add(parseFloat(costs.price), parseFloat(costs.shipping)),
                            parseFloat(costs.duties))
  IN  IF ~priceResult.isValid
      THEN WarnAndReturn(toast, priceResult.error, [isValid |-> FALSE, values |-> Null])
      ELSE IF ~shippingResult.isValid
      THEN WarnAndReturn(toast, shippingResult.error, [isValid |-> FALSE, values |-> Null])
      ELSE IF ~dutiesResult.isValid
      THEN WarnAndReturn(toast, dutiesResult.error, [isValid |-> FALSE, values |-> Null])
      ELSE Return([isValid |-> TRUE,
                   values  |-> [k        |-> "object",
                                price    |-> priceResult.value,
                                shipping |-> shippingResult.value,
                                duties   |-> dutiesResult.value,
                                total    |-> Number(total)]], <<>>)

validatePartCosts(costs, toast) ==
  IF costs.k \in {"null", "undefined"} THEN Throw("TypeError")
  ELSE
  LET priceResult    == validateCurrency(costs.price, Msg("Price"))
      shippingResult == validateCurrency(costs.shipping, Msg("Shipping"))
      dutiesResult   == validateCurrency(costs.duties, Msg("Duties"))
      total          == Add(Add(priceResult.value.n, shippingResult.value.n),
                            dutiesResult.value.n)
  IN  IF ~priceResult.isValid
      THEN WarnAndReturn(toast, priceResult.error, [isValid |-> FALSE, values |-> Null])
      ELSE IF ~shippingResult.isValid
      THEN WarnAndReturn(toast, shippingResult.error, [isValid |-> FALSE, values |-> Null])
      ELSE IF ~dutiesResult.isValid
      THEN WarnAndReturn(toast, dutiesResult.error, [isValid |-> FALSE, values |-> Null])
      ELSE Return([isValid |-> TRUE,
                   values  |-> [k        |-> "object",
                                price    |-> priceResult.value,
                                shipping |-> shippingResult.value,
                                duties   |-> dutiesResult.value,
                                total    |-> Number(total)]], <<>>)

\* Mutant: the label is left out, so the messages say Value.
validateBudgetUnlabelled(budget, toast) ==
  LET result == validateCurrency(budget, Undefined)
  IN  IF ~result.isValid
      THEN WarnAndReturn(toast, result.error, [isValid |-> FALSE, value |-> Number(Num(0))])
      ELSE Return([isValid |-> TRUE, value |-> result.value], <<>>)

\* Mutant: the warning is issued before the result is looked at.
validateBudgetWarnsFirst(budget, toast) ==
  LET result == validateCurrency(budget, Msg("Budget"))
      warned == IF toast = Toast THEN <<result.error>> ELSE <<>>
  IN  IF ~result.isValid
      THEN Return([isValid |-> FALSE, value |-> Number(Num(0))], warned)
      ELSE Return([isValid |-> TRUE, value |-> result.value], warned)

validateBudget(budget, toast) ==
  LET result == validateCurrency(budget, Msg("Budget"))
  IN  IF ~result.isValid
      THEN WarnAndReturn(toast, result.error, [isValid |-> FALSE, value |-> Number(Num(0))])
      ELSE Return([isValid |-> TRUE, value |-> result.value], <<>>)

----------------------------------------------------------------------------
(* Bounds of the model and the raw inputs the calls draw *)

\* The year the clock shows at first, and how many new years it may pass.
FirstYear == 2026

MaxTicks == 1

\* The number of warnings the sink may have received before a composite call.
MaxWarnings == 1

IntStr(i) == Str(Chars(NatDigits(i)))

\* 10^21 as a digit string: the least integer that prints in exponent form.
Sextillion == <<1>> \o Zeros(21)

RawStrings ==
  { Str(<<>>),
    Str(<<"0">>),
    Str(<<"1", "0", ".", "5", "0">>),
    Str(<<"a", "b", "c">>),
    Str(<<"-", "5">>),
    Str(<<" ", "4", "2">>),
    Str(<<"1", "2", "a", "b", "c">>),
    Str(<<".", "5">>),
    Str(<<"1", "e", "9">>),
    Str(<<"1", "0", "0", "0", "0", "0", "0", "0", "0", "0", ".", "5">>),
    Str(<<"I", "n", "f", "i", "n", "i", "t", "y">>),
    IntStr(MaxCurrency),
    IntStr(MaxCurrency + 1),
    IntStr(MinYear - 1),
    IntStr(MinYear),
    IntStr(FirstYear + YearsAhead),
    IntStr(FirstYear + YearsAhead + 1),
    IntStr(FirstYear + YearsAhead + MaxTicks + 1),
    IntStr(MaxOdometer),
    IntStr(MaxOdometer + 1),
    Str(Chars(Sextillion)) }

RawNumbers ==
  { Number(Num(0)),
    Number(Num(2)),
    Number(Fin(FALSE, <<1, 0>>, <<5>>)),
    Number(Num(-5)),
    Number(Num(FirstYear)),
    Number(Num(MaxCurrency)),
    Number(Num(MaxCurrency + 1)),
    Number(Fin(FALSE, <<>>, <<0, 0, 0, 0, 0, 0, 1>>)),
    Number(Fin(FALSE, Sextillion, <<>>)),
    Number(NaN),
    Number(Infinity) }

\* Every kind of raw input: string, number, empty string, null, undefined.
RawInputs == RawStrings \cup RawNumbers \cup {Null, Undefined}

\* Field labels: omitted (the default applies) or given.
FieldNames == {Undefined, Msg("Mileage")}

\* Options objects: omitted, empty, the bounds of the derived validators,
\* required input, a bound beyond 10^21, and min above max.
OptionsInputs ==
  { Undefined,
    Options(Undefined, Undefined, Bool(FALSE)),
    Options(Number(Num(MinYear)), Number(Num(FirstYear + YearsAhead)), Bool(TRUE)),
    Options(Number(Num(MinOdometer)), Number(Num(MaxOdometer)), Undefined),
    Options(Number(Num(1)), Number(Infinity), Bool(TRUE)),
    Options(Number(Num(MaxOdometer)), Number(Num(MinYear)), Bool(FALSE)) }

\* The notification sink as a caller passes it: the toast object, or omitted.
ToastInputs == {Toast, Null, Undefined}

\* Raw values of one cost field; undefined is a field the bundle lacks.
CostInputs ==
  { Undefined,
    Str(<<>>),
    Str(<<"1", "0", ".", "5", "0">>),
    Number(Num(MaxCurrency)),
    Str(<<"a", "b", "c">>),
    Str(<<"-", "5">>),
    IntStr(MaxCurrency + 1) }

----------------------------------------------------------------------------
(* The calls.  call is the last call made: its arguments and its outcome;   *)
(* sink is every message toast.warning has received, in order.              *)

NoCall == [op |-> "none"]

Years == FirstYear..(FirstYear + MaxTicks)

\* The calls of each validator over the inputs drawn, with their outcomes
\* (each evaluated once).  A field validator returns, and warns nobody.
CurrencyCalls ==
  { [op |-> "validateCurrency", value |-> value, fieldName |-> fieldName,
     threw |-> FALSE, result |-> validateCurrency(value, fieldName), warned |-> <<>>] :
    value \in RawInputs, fieldName \in FieldNames }

PositiveIntegerCalls ==
  [loc \in Locales |->
    { [op |-> "validatePositiveInteger", value |-> value, fieldName |-> fieldName,
       options |-> options, threw |-> FALSE,
       result |-> validatePositiveInteger(value, fieldName, options, loc),
       warned |-> <<>>] :
      value \in RawInputs, fieldName \in FieldNames, options \in OptionsInputs }]

YearCalls ==
  [year \in Years, loc \in Locales |->
    { [op |-> "validateYear", value |-> value, fieldName |-> fieldName, year |-> year,
       threw |-> FALSE, result |-> validateYear(value, fieldName, year, loc),
       warned |-> <<>>] :
      value \in RawInputs, fieldName \in FieldNames }]

OdometerCalls ==
  [loc \in Locales |->
    { [op |-> "validateOdometer", value |-> value, fieldName |-> fieldName,
       threw |-> FALSE, result |-> validateOdometer(value, fieldName, loc),
       warned |-> <<>>] :
      value \in RawInputs, fieldName \in FieldNames }]

\* The record of a composite call from its outcome.
Called(op, args, toast, outcome) ==
  [op |-> op, args |-> args, toast |-> toast, threw |-> outcome.threw,
   result |-> IF outcome.threw THEN Null ELSE outcome.result, warned |-> outcome.warned]

PartCostsCalls ==
  { Called("validatePartCosts", Costs(price, shipping, duties), toast,
           validatePartCosts(Costs(price, shipping, duties), toast)) :
    price \in CostInputs, shipping \in CostInputs, duties \in CostInputs,
    toast \in ToastInputs }

BudgetCalls ==
  { Called("validateBudget", budget, toast, validateBudget(budget, toast)) :
    budget \in RawInputs, toast \in ToastInputs }

----------------------------------------------------------------------------
(* ComboBox (src/unnamed/part_000)                                         *)
(*                                                                         *)
(* combo holds the component's three pieces of React state as the last     *)
(* render committed them, the value prop its parent passes back after      *)
(* onChange, the close timers that are pending, and the closure the        *)
(* mousedown listener was built from.  A handler reads isOpen and          *)
(* isClosing from the render that created it: the handlers on the          *)
(* rendered elements come from the last render, the document listener      *)
(* from the render of the mount, its effect having no dependencies.  The   *)
(* updates of one handler or timer callback are batched, so each action    *)
(* is the handler together with the render that follows it.  The 50 ms     *)
(* timer of toggleDropdown only moves the focus and is left out of the     *)
(* state.                                                                  *)

\* Strings of the component are sequences of characters.
LowerCase ==
  [c \in {"F", "f", "I", "i", "A", "a", "T", "t", "O", "o", "R", "r", "D", "d",
          "B", "b", "M", "m", "W", "w"} |->
     CASE c \in {"F", "f"} -> "f" [] c \in {"I", "i"} -> "i" [] c \in {"A", "a"} -> "a"
       [] c \in {"T", "t"} -> "t" [] c \in {"O", "o"} -> "o" [] c \in {"R", "r"} -> "r"
       [] c \in {"D", "d"} -> "d" [] c \in {"B", "b"} -> "b" [] c \in {"M", "m"} -> "m"
       [] c \in {"W", "w"} -> "w"]

toLowerCase(str) == [i \in 1..Len(str) |-> LowerCase[str[i]]]

\* str.includes(part)
includes(str, part) ==
  \E i \in 0..(Len(str) - Len(part)) : SubSeq(str, i + 1, i + Len(part)) = part

\* The options prop, and what the user may type into the search input.
ComboOptions == << <<"F", "o", "r", "d">>, <<"F", "i", "a", "t">> >>

SearchTerms == { <<>>, <<"f">>, <<"f", "i", "a", "t">>, <<"B", "M", "W">> }

Keys == {"Enter", "Escape", "Tab"}

MouseTargets == {"inside", "outside"}

\* How many close timers may be pending before the events stop.
MaxTimers == 2

\* options.filter(option => option.toLowerCase().includes(searchTerm.toLowerCase()))
filteredOptions(searchTerm) ==
  SelectSeq(ComboOptions, LAMBDA option : includes(toLowerCase(option), toLowerCase(searchTerm)))

\* filteredOptions.find(opt => opt.toLowerCase() === searchTerm.toLowerCase()),
\* undefined when there is none.
exactMatch(searchTerm) ==
  LET matches == SelectSeq(filteredOptions(searchTerm),
                           LAMBDA opt : toLowerCase(opt) = toLowerCase(searchTerm))
  IN  IF matches = <<>> THEN Undefined ELSE Str(matches[1])

\* The closure of a render: the isOpen and isClosing its handlers read.
Closure(c) == [isOpen |-> c.isOpen, isClosing |-> c.isClosing]

\* useState(false), useState(''), useState(false), allowCustom = true; the
\* listener is registered by the effect of the mount, with the closure of
\* the first render.
InitComboBox ==
  combo = [isOpen |-> FALSE, searchTerm |-> <<>>, isClosing |-> FALSE,
           value |-> <<>>, allowCustom |-> TRUE, timers |-> 0,
           listener |-> [isOpen |-> FALSE, isClosing |-> FALSE],
           event |-> "mount", met |-> [isOpen |-> FALSE, isClosing |-> FALSE]]

\* Mutant: the close runs whenever the dropdown is open, closing or not.
closeDropdownUnguarded(c, closure) ==
  IF closure.isOpen
  THEN [c EXCEPT !.isClosing = TRUE, !.timers = @ + 1]
  ELSE c

\* closeDropdown as a handler of the given closure calls it: when that render
\* saw the dropdown open and not closing, setIsClosing(true) and the 150 ms
\* timer.
closeDropdown(c, closure) ==
  IF closure.isOpen /\ ~closure.isClosing
  THEN [c EXCEPT !.isClosing = TRUE, !.timers = @ + 1]
  ELSE c

\* handleClickOutside: a mousedown whose target the root does not contain
\* calls the closeDropdown of the render the listener was created in.
handleClickOutside(c, target) ==
  IF target = "outside" THEN closeDropdown(c, c.listener) ELSE c

\* handleSelect: onChange(option), after which the parent passes the option
\* back as value, and closeDropdown().
handleSelect(c, option) ==
  closeDropdown([c EXCEPT !.value = option], Closure(c))

\* handleClear: onChange('') and setSearchTerm('').
handleClear(c) == [c EXCEPT !.value = <<>>, !.searchTerm = <<>>]

\* toggleDropdown: close when open, else setIsOpen(true).
toggleDropdown(c) ==
  IF c.isOpen THEN closeDropdown(c, Closure(c))
  ELSE [c EXCEPT !.isOpen = TRUE]

\* onKeyDown of the search input.
onKeyDown(c, key) ==
  IF key = "Enter" /\ c.allowCustom /\ c.searchTerm # <<>>
  THEN handleSelect(c, IF exactMatch(c.searchTerm) # Undefined
                       THEN exactMatch(c.searchTerm).chars ELSE c.searchTerm)
  ELSE IF key = "Escape" THEN closeDropdown(c, Closure(c))
  ELSE c

\* The callback of the 150 ms timer.
closeTimer(c) ==
  [c EXCEPT !.isOpen = FALSE, !.isClosing = FALSE, !.searchTerm = <<>>,
            !.timers = @ - 1]

\* The component after an event: the handler's result, with the event and
\* the isOpen and isClosing it met recorded.
Handled(name, after) == [after EXCEPT !.event = name, !.met = Closure(combo)]

\* The parent renders the component with the other allowCustom.
SetAllowCustom ==
  /\ combo.timers < MaxTimers
  /\ combo' = Handled("props", [combo EXCEPT !.allowCustom = ~@])
  /\ UNCHANGED <<validation, image, modal>>

\* A click on the trigger button.
ToggleDropdown ==
  /\ combo.timers < MaxTimers
  /\ combo' = Handled("toggle", toggleDropdown(combo))
  /\ UNCHANGED <<validation, image, modal>>

\* A click on the clear button, which is rendered while there is a value.
HandleClear ==
  /\ combo.timers < MaxTimers
  /\ combo.value # <<>>
  /\ combo' = Handled("clear", handleClear(combo))
  /\ UNCHANGED <<validation, image, modal>>

\* Typing into the search input, which is rendered while the dropdown is.
SearchInput ==
  \E term \in SearchTerms :
    /\ combo.timers < MaxTimers
    /\ combo.isOpen
    /\ combo' = Handled("search", [combo EXCEPT !.searchTerm = term])
    /\ UNCHANGED <<validation, image, modal>>

\* A click on the button that empties the search input.
ClearSearch ==
  /\ combo.timers < MaxTimers
  /\ combo.isOpen
  /\ combo.searchTerm # <<>>
  /\ combo' = Handled("clearSearch", [combo EXCEPT !.searchTerm = <<>>])
  /\ UNCHANGED <<validation, image, modal>>

\* A key pressed in the search input.
KeyDown ==
  \E key \in Keys :
    /\ combo.timers < MaxTimers
    /\ combo.isOpen
    /\ combo' = Handled(key, onKeyDown(combo, key))
    /\ UNCHANGED <<validation, image, modal>>

\* A click on the button that offers the search term as a custom value.
SelectCustom ==
  /\ combo.timers < MaxTimers
  /\ combo.isOpen
  /\ combo.allowCustom
  /\ combo.searchTerm # <<>>
  /\ exactMatch(combo.searchTerm) = Undefined
  /\ combo' = Handled("selectCustom", handleSelect(combo, combo.searchTerm))
  /\ UNCHANGED <<validation, image, modal>>

\* A click on one of the options listed.
SelectOption ==
  \E i \in 1..Len(filteredOptions(combo.searchTerm)) :
    /\ combo.timers < MaxTimers
    /\ combo.isOpen
    /\ combo' = Handled("select", handleSelect(combo, filteredOptions(combo.searchTerm)[i]))
    /\ UNCHANGED <<validation, image, modal>>

\* A mousedown anywhere in the document.
MouseDown ==
  \E target \in MouseTargets :
    /\ combo.timers < MaxTimers
    /\ combo' = Handled("mousedown " \o target, handleClickOutside(combo, target))
    /\ UNCHANGED <<validation, image, modal>>

\* A close timer fires.
CloseTimer ==
  /\ combo.timers > 0
  /\ combo' = Handled("closeTimer", closeTimer(combo))
  /\ UNCHANGED <<validation, image, modal>>

NextComboBox ==
  \/ SetAllowCustom
  \/ ToggleDropdown
  \/ HandleClear
  \/ SearchInput
  \/ ClearSearch
  \/ KeyDown
  \/ SelectCustom
  \/ SelectOption
  \/ MouseDown
  \/ CloseTimer

----------------------------------------------------------------------------
(* FadeInImage (src/components/ui/FadeInImage.js)                          *)
(*                                                                         *)
(* image holds the src and alt props of the last render, the isLoaded      *)
(* state that render committed, the prevSrcRef, whether the effect on      *)
(* [src, alt] of that render is still waiting to run, and whether the      *)
(* img element has fired the load event of the src it now carries.  An     *)
(* effect runs some time after its render is committed and before the      *)
(* next render starts; the load event comes whenever the browser has the   *)
(* image, or never.                                                        *)

Sources == {"a.jpg", "b.jpg", "c.jpg"}

Alts == {"front", "rear"}

\* opacity: isLoaded ? 1 : 0
opacity(img) == IF img.isLoaded THEN 1 ELSE 0

\* The first render and its commit: useState(false), useRef(src), the img
\* element created with the src, the effects of the mount not yet run.
FirstSource == "a.jpg"

FirstAlt == "front"

InitFadeInImage ==
  image = [src |-> FirstSource, alt |-> FirstAlt, isLoaded |-> FALSE,
           prevSrc |-> FirstSource, effectPending |-> TRUE, loaded |-> FALSE,
           event |-> "mount"]

\* The effect on [src, alt]: if (prevSrcRef.current !== src)
\* { setIsLoaded(false); prevSrcRef.current = src; }
resetOnSrcChange(img) ==
  IF img.prevSrc # img.src
  THEN [img EXCEPT !.isLoaded = FALSE, !.prevSrc = img.src, !.effectPending = FALSE]
  ELSE [img EXCEPT !.effectPending = FALSE]

\* The effects that wait are run before a render starts.
flushPassiveEffects(img) == IF img.effectPending THEN resetOnSrcChange(img) ELSE img

\* A render with new props and its commit: the state is kept, the img
\* element gets the src, and the effect is scheduled as its dependencies
\* changed.  A new src starts a new load.
render(img, src, alt) ==
  [img EXCEPT !.src = src, !.alt = alt, !.effectPending = TRUE,
              !.loaded = IF src = img.src THEN img.loaded ELSE FALSE]

\* handleLoad: setIsLoaded(true).  Setting the state it already has starts
\* no render; otherwise the render that follows runs the waiting effect
\* first, whose setIsLoaded(false) is then the later update of the two.
handleLoad(img) ==
  IF img.isLoaded THEN img
  ELSE IF img.effectPending /\ img.prevSrc # img.src THEN resetOnSrcChange(img)
  ELSE [flushPassiveEffects(img) EXCEPT !.isLoaded = TRUE]

\* The parent renders the component with another src.
ChangeSrc ==
  \E src \in Sources \ {image.src} :
    /\ image' = [render(flushPassiveEffects(image), src, image.alt) EXCEPT
                   !.event = "src"]
    /\ UNCHANGED <<validation, combo, modal>>

\* The parent renders the component with another alt.
ChangeAlt ==
  \E alt \in Alts \ {image.alt} :
    /\ image' = [render(flushPassiveEffects(image), image.src, alt) EXCEPT
                   !.event = "alt"]
    /\ UNCHANGED <<validation, combo, modal>>

\* The effect of the last render runs.
RunEffect ==
  /\ image.effectPending
  /\ image' = [resetOnSrcChange(image) EXCEPT !.event = "effect"]
  /\ UNCHANGED <<validation, combo, modal>>

\* The img element fires load for the src it carries.
Load ==
  /\ ~image.loaded
  /\ image' = [handleLoad(image) EXCEPT !.loaded = TRUE, !.event = "load"]
  /\ UNCHANGED <<validation, combo, modal>>

NextFadeInImage ==
  \/ ChangeSrc
  \/ ChangeAlt
  \/ RunEffect
  \/ Load

----------------------------------------------------------------------------
(* NewUserConfirmModal (src/components/modals/NewUserConfirmModal.js)      *)
(*                                                                         *)
(* modal holds the isOpen and isLoading props the parent last rendered the *)
(* modal with, the callbacks invoked so far, and the last click with the   *)
(* props it met.  A click is dispatched to the element clicked and bubbles *)
(* to its ancestors until a handler stops it; a disabled button dispatches *)
(* no click at all.                                                        *)

ClickTargets == {"goBack", "confirm", "content", "backdrop"}

\* How many callbacks are recorded before the clicks stop.
MaxCallbacks == 2

NoClick == [target |-> "none"]

\* The modal is closed and idle at first.
InitModal ==
  modal = [isOpen |-> FALSE, isLoading |-> FALSE, invoked |-> <<>>, click |-> NoClick]

\* PrimaryButton passes disabled and onClick on to its button element.
PrimaryButton(disabled, onClick) == IF disabled THEN <<>> ELSE <<onClick>>

\* The callbacks a click on the target invokes: nothing is rendered while
\* isOpen is false; the buttons are disabled while isLoading; the content
\* stops the click of whatever lies in it; the backdrop calls onCancel.
onClick(isOpen, isLoading, target) ==
  IF ~isOpen THEN <<>>
  ELSE CASE target = "goBack"   -> IF isLoading THEN <<>> ELSE <<"onCancel">>
         [] target = "confirm"  -> PrimaryButton(isLoading, "onConfirm")
         [] target = "content"  -> <<>>
         [] target = "backdrop" -> <<"onCancel">>

\* The parent renders the modal with other props.
SetProps ==
  \E isOpen \in BOOLEAN, isLoading \in BOOLEAN :
    /\ modal' = [modal EXCEPT !.isOpen = isOpen, !.isLoading = isLoading]
    /\ UNCHANGED <<validation, combo, image>>

\* The user clicks where the target is, or would be.
Click ==
  \E target \in ClickTargets :
    /\ Len(modal.invoked) < MaxCallbacks
    /\ modal' = [modal EXCEPT
                   !.invoked = @ \o onClick(modal.isOpen, modal.isLoading, target),
                   !.click = [target |-> target, isOpen |-> modal.isOpen,
                              isLoading |-> modal.isLoading,
                              invoked |-> onClick(modal.isOpen, modal.isLoading, target)]]
    /\ UNCHANGED <<validation, combo, image>>

NextModal ==
  \/ SetProps
  \/ Click

\* The validation layer before any call.
InitValidation ==
  /\ currentYear = FirstYear
  /\ locale \in Locales
  /\ sink = <<>>
  /\ call = NoCall

Init ==
  /\ InitValidation
  /\ InitComboBox
  /\ InitFadeInImage
  /\ InitModal

\* The clock passes into a new year.
Tick ==
  /\ currentYear < FirstYear + MaxTicks
  /\ currentYear' = currentYear + 1
  /\ UNCHANGED <<locale, sink, call, combo, image, modal>>

ValidateCurrency ==
  \E c \in CurrencyCalls :
    /\ Len(sink) < MaxWarnings
    /\ call' = c
    /\ UNCHANGED <<currentYear, locale, sink, combo, image, modal>>

ValidatePositiveInteger ==
  \E c \in PositiveIntegerCalls[locale] :
    /\ Len(sink) < MaxWarnings
    /\ call' = c
    /\ UNCHANGED <<currentYear, locale, sink, combo, image, modal>>

ValidateYear ==
  \E c \in YearCalls[currentYear, locale] :
    /\ Len(sink) < MaxWarnings
    /\ call' = c
    /\ UNCHANGED <<currentYear, locale, sink, combo, image, modal>>

ValidateOdometer ==
  \E c \in OdometerCalls[locale] :
    /\ Len(sink) < MaxWarnings
    /\ call' = c
    /\ UNCHANGED <<currentYear, locale, sink, combo, image, modal>>

\* The sink receives what the call's toast?.warning delivered.
ValidatePartCosts ==
  \E c \in PartCostsCalls :
    /\ Len(sink) < MaxWarnings
    /\ call' = c
    /\ sink' = sink \o c.warned
    /\ UNCHANGED <<currentYear, locale, combo, image, modal>>

ValidateBudget ==
  \E c \in BudgetCalls :
    /\ Len(sink) < MaxWarnings
    /\ call' = c
    /\ sink' = sink \o c.warned
    /\ UNCHANGED <<currentYear, locale, combo, image, modal>>

NextFields ==
  \/ Tick
  \/ ValidateCurrency
  \/ ValidatePositiveInteger
  \/ ValidateYear
  \/ ValidateOdometer

NextComposite ==
  \/ ValidatePartCosts
  \/ ValidateBudget

NextValidation == NextFields \/ NextComposite

Next == NextValidation \/ NextComboBox \/ NextFadeInImage \/ NextModal

Spec == Init /\ [][Next]_vars

SpecValidation == Init /\ [][NextValidation]_vars

SpecFields == Init /\ [][NextFields]_vars

SpecComposite == Init /\ [][NextComposite]_vars

SpecComboBox == Init /\ [][NextComboBox]_vars

SpecFadeInImage == Init /\ [][NextFadeInImage]_vars

SpecModal == Init /\ [][NextModal]_vars

----------------------------------------------------------------------------
(* Properties *)

SetMin(S) == CHOOSE x \in S : \A y \in S : x <= y

\* The three messages validateCurrency can give under a label.
CurrencyErrors(label) ==
  { Msg(label \o " must be a valid number"),
    Msg(label \o " cannot be negative"),
    Msg(label \o " exceeds maximum allowed value") }

\* The field validations of a costs bundle, in the order price, shipping, duties.
CostChecks(costs) ==
  << validateCurrency(costs.price, Msg("Price")),
     validateCurrency(costs.shipping, Msg("Shipping")),
     validateCurrency(costs.duties, Msg("Duties")) >>

CostLabels == <<"Price", "Shipping", "Duties">>

InvalidFields(costs) == {i \in 1..3 : ~CostChecks(costs)[i].isValid}

Zero == Number(Num(0))

\* C1: when at least one of price, shipping, duties is invalid,
\* validatePartCosts returns {isValid: false, values: null} and warns the sink
\* exactly once, with the message of the first invalid field in that order,
\* labelled with that field's name; a later invalid field is not reported
\* (and with the sink omitted nothing is delivered).
C1_FirstInvalidFieldOnly ==
  (call.op = "validatePartCosts" /\ InvalidFields(call.args) # {}) =>
    /\ ~call.threw
    /\ call.result = [isValid |-> FALSE, values |-> Null]
    /\ (call.toast = Toast =>
          /\ call.warned = <<CostChecks(call.args)[SetMin(InvalidFields(call.args))].error>>
          /\ call.warned[1] \in CurrencyErrors(CostLabels[SetMin(InvalidFields(call.args))])
          /\ sink # <<>>
          /\ sink[Len(sink)] = call.warned[1])
    /\ (call.toast # Toast => call.warned = <<>>)

\* C1 witness: shipping and duties are both invalid, the price is valid, and
\* the sink has received the shipping message alone.
C1_Witness ==
  /\ call.op = "validatePartCosts"
  /\ call.toast = Toast
  /\ InvalidFields(call.args) = {2, 3}
  /\ sink = <<Msg("Shipping must be a valid number")>>

\* The value a valid raw cost normalizes to: 0 for an empty input, else the
\* number parsed.
Normalized(raw) ==
  IF raw \in {Str(<<>>), Null, Undefined} THEN Zero ELSE Number(parseFloat(raw))

\* C2: when price, shipping and duties are all valid, validatePartCosts returns
\* {isValid: true, values} with each field normalized (empty, null and
\* undefined to 0) and total their sum; when any field is invalid no values
\* are returned.
C2_TotalOfNormalized ==
  call.op = "validatePartCosts" =>
    IF InvalidFields(call.args) = {}
    THEN /\ ~call.threw
         /\ call.result.isValid
         /\ call.result.values.price = Normalized(call.args.price)
         /\ call.result.values.shipping = Normalized(call.args.shipping)
         /\ call.result.values.duties = Normalized(call.args.duties)
         /\ call.result.values.total =
              Number(Add(Add(call.result.values.price.n, call.result.values.shipping.n),
                         call.result.values.duties.n))
    ELSE /\ ~call.result.isValid
         /\ call.result.values = Null

\* C2 witness: an omitted price, "10.50" and 1000000000 give the total
\* 1000000010.5.
C2_Witness ==
  /\ call.op = "validatePartCosts"
  /\ call.args.price = Undefined
  /\ call.args.shipping = Str(<<"1", "0", ".", "5", "0">>)
  /\ call.args.duties = Number(Num(1000000000))
  /\ call.result.isValid
  /\ call.result.values.price = Zero
  /\ call.result.values.total = Number(Fin(FALSE, <<1, 0, 0, 0, 0, 0, 0, 0, 1, 0>>, <<5>>))

FieldValidators ==
  {"validateCurrency", "validatePositiveInteger", "validateYear", "validateOdometer"}

CompositeValidators == {"validatePartCosts", "validateBudget"}

\* C3: no validator throws, for every kind of raw input and with the sink
\* present or omitted: each call returns its structured result, and with the
\* sink omitted no warning is delivered.
C3_NeverThrows ==
  /\ call.op \in FieldValidators =>
       /\ ~call.threw
       /\ DOMAIN call.result = {"isValid", "value", "error"}
       /\ call.result.isValid \in BOOLEAN
  /\ call.op \in CompositeValidators =>
       /\ ~call.threw
       /\ call.result.isValid \in BOOLEAN
       /\ DOMAIN call.result =
            (IF call.op = "validateBudget" THEN {"isValid", "value"}
             ELSE {"isValid", "values"})
       /\ (call.toast \in {Null, Undefined} => call.warned = <<>>)

\* C3 witness: a failing validatePartCosts call with the sink null returned.
C3_Witness ==
  /\ call.op = "validatePartCosts"
  /\ call.toast = Null
  /\ ~call.threw
  /\ ~call.result.isValid
  /\ sink = <<>>

\* C4: a field validator's result has error null when valid; when invalid its
\* value is the rule's default (0 for currency, null for the integer
\* validators) and its error is a non-empty message.
C4_ResultShape ==
  call.op \in FieldValidators =>
    IF call.result.isValid THEN call.result.error = Null
    ELSE /\ call.result.value = (IF call.op = "validateCurrency" THEN Zero ELSE Null)
         /\ call.result.error.k = "string"
         /\ call.result.error.text # ""

\* C4 witness: a currency above the ceiling is invalid with value 0.
C4_Witness ==
  /\ call.op = "validateCurrency"
  /\ call.value = Number(Num(1000000001))
  /\ ~call.result.isValid

\* The label a call's messages carry: the one given, else the default.
Label(fieldName, dflt) == IF fieldName = Undefined THEN dflt ELSE fieldName.text

\* C5: validateCurrency classifies a non-empty input by the first rule that
\* matches: not a number, below 0, above 1,000,000,000, else valid with the
\* parsed value; so every value in [0, 1,000,000,000] is valid, and an
\* invalid result has value 0.
C5_CurrencyRules ==
  (call.op = "validateCurrency" /\ call.value \notin {Str(<<>>), Null, Undefined}) =>
    /\ call.result =
         (CASE isNaN(parseFloat(call.value)) ->
                 Result(FALSE, Zero, Msg(Label(call.fieldName, "Value") \o " must be a valid number"))
            [] ~isNaN(parseFloat(call.value)) /\ Lt(parseFloat(call.value), Num(0)) ->
                 Result(FALSE, Zero, Msg(Label(call.fieldName, "Value") \o " cannot be negative"))
            [] ~isNaN(parseFloat(call.value)) /\ Lt(Num(1000000000), parseFloat(call.value)) ->
                 Result(FALSE, Zero,
                        Msg(Label(call.fieldName, "Value") \o " exceeds maximum allowed value"))
            [] OTHER -> Result(TRUE, Number(parseFloat(call.value)), Null))
    /\ (call.result.isValid <=>
          (Le(Num(0), parseFloat(call.value)) /\ Le(parseFloat(call.value), Num(1000000000))))
    /\ (~call.result.isValid => call.result.value = Zero)

\* C5 witness: the ceiling itself, "1000000000", is valid.
C5_Witness ==
  /\ call.op = "validateCurrency"
  /\ call.value = Str(<<"1", "0", "0", "0", "0", "0", "0", "0", "0", "0">>)
  /\ call.result = Result(TRUE, Number(Num(1000000000)), Null)

\* The options in force: a property that is omitted takes its default.
MinOf(options) ==
  IF options = Undefined \/ options.min = Undefined THEN Num(0) ELSE options.min.n

MaxOf(options) ==
  IF options = Undefined \/ options.max = Undefined THEN Infinity ELSE options.max.n

AllowEmptyOf(options) ==
  IF options = Undefined \/ options.allowEmpty = Undefined THEN TRUE ELSE options.allowEmpty.b

\* What the integer rules give for a raw value under a label and bounds.
IntegerRules(value, label, min, max, allowEmpty, loc) ==
  IF value \in {Str(<<>>), Null, Undefined}
  THEN IF allowEmpty THEN Result(TRUE, Null, Null)
       ELSE Result(FALSE, Null, Msg(label \o " is required"))
  ELSE IF isNaN(parseInt(value))
  THEN Result(FALSE, Null, Msg(label \o " must be a valid number"))
  ELSE IF Lt(parseInt(value), min)
  THEN Result(FALSE, Null, Msg(label \o " must be at least " \o Join(NumberToString(min))))
  ELSE IF Lt(max, parseInt(value))
  THEN Result(FALSE, Null, Msg(label \o " must be at most " \o Join(toLocaleString(max, loc))))
  ELSE Result(TRUE, Number(parseInt(value)), Null)

\* C6: validatePositiveInteger classifies an input by the first rule that
\* matches: empty (valid with null if allowEmpty, else required), not a
\* number, below min, above max, else valid with the parsed integer, the
\* options defaulting to min 0, max +infinity, allowEmpty true; so a valid
\* non-null value lies in [min, max], and with min > max no non-empty input is
\* valid.
C6_IntegerRules ==
  call.op = "validatePositiveInteger" =>
    /\ call.result =
         IntegerRules(call.value, Label(call.fieldName, "Value"), MinOf(call.options),
                      MaxOf(call.options), AllowEmptyOf(call.options), locale)
    /\ ((call.result.isValid /\ call.result.value # Null) =>
          /\ Le(MinOf(call.options), call.result.value.n)
          /\ Le(call.result.value.n, MaxOf(call.options)))
    /\ ((Lt(MaxOf(call.options), MinOf(call.options))
         /\ call.value \notin {Str(<<>>), Null, Undefined}) => ~call.result.isValid)

\* C6 witness: with min 10000000 above max 1900, a year between the two is
\* reported as below min, the rule that comes first.
C6_Witness ==
  /\ call.op = "validatePositiveInteger"
  /\ call.options = Options(Number(Num(10000000)), Number(Num(1900)), Bool(FALSE))
  /\ call.value = IntStr(FirstYear + 2)
  /\ call.fieldName = Undefined
  /\ call.result = Result(FALSE, Null, Msg("Value must be at least 10000000"))

\* C7: the empty string, null and undefined are interchangeable: each is a
\* valid currency of value 0, and with allowEmpty true a valid integer of
\* value null, under every label and bounds.
C7_EmptyInputs ==
  /\ (call.op = "validateCurrency" /\ call.value \in {Str(<<>>), Null, Undefined}) =>
       call.result = Result(TRUE, Zero, Null)
  /\ (call.op = "validatePositiveInteger" /\ call.value \in {Str(<<>>), Null, Undefined}
      /\ AllowEmptyOf(call.options)) =>
       call.result = Result(TRUE, Null, Null)

\* C7 witness: undefined validated as an integer under the year bounds.
C7_Witness ==
  /\ call.op = "validatePositiveInteger"
  /\ call.value = Undefined
  /\ call.options # Undefined
  /\ call.options.min = Number(Num(1900))
  /\ call.result = Result(TRUE, Null, Null)

\* C8: validating the value of an accepted result again, under the same label
\* and options, gives the same result.
C8_Idempotent ==
  /\ (call.op = "validateCurrency" /\ call.result.isValid) =>
       validateCurrency(call.result.value, call.fieldName) = call.result
  /\ (call.op = "validatePositiveInteger" /\ call.result.isValid) =>
       validatePositiveInteger(call.result.value, call.fieldName, call.options, locale)
         = call.result

\* C9: validateBudget agrees with validateCurrency under the label Budget:
\* when that is invalid the sink is warned exactly once with its message and
\* {isValid: false, value: 0} is returned; when it is valid the sink is not
\* called and {isValid: true, value} is returned.
C9_BudgetAgrees ==
  call.op = "validateBudget" =>
    /\ ~call.threw
    /\ IF validateCurrency(call.args, Msg("Budget")).isValid
       THEN /\ call.warned = <<>>
            /\ call.result =
                 [isValid |-> TRUE, value |-> validateCurrency(call.args, Msg("Budget")).value]
       ELSE /\ call.result = [isValid |-> FALSE, value |-> Zero]
            /\ validateCurrency(call.args, Msg("Budget")).error \in CurrencyErrors("Budget")
            /\ (call.toast = Toast =>
                  /\ call.warned = <<validateCurrency(call.args, Msg("Budget")).error>>
                  /\ sink # <<>>
                  /\ sink[Len(sink)] = call.warned[1])
            /\ (call.toast # Toast => call.warned = <<>>)

\* C9 witness: the budget -5 warns "Budget cannot be negative".
C9_Witness ==
  /\ call.op = "validateBudget"
  /\ call.args = Number(Num(-5))
  /\ call.toast = Toast
  /\ sink = <<Msg("Budget cannot be negative")>>
  /\ call.result = [isValid |-> FALSE, value |-> Zero]

\* A raw value is accepted within [lo, hi]: it is empty, or its parsed
\* integer lies within the bounds.
AcceptedWithin(value, lo, hi) ==
  \/ value \in {Str(<<>>), Null, Undefined}
  \/ (Le(Num(lo), parseInt(value)) /\ Le(parseInt(value), Num(hi)))

\* C10: validateOdometer is validatePositiveInteger with min 0, max 10000000,
\* allowEmpty true, and validateYear, in the year Y of the call, with min 1900,
\* max Y + 2, allowEmpty true (the labels defaulting to Odometer and Year); so
\* the values they accept are exactly the integers within those bounds, the
\* bounds included, and empty input is accepted with value null.
C10_Specializations ==
  /\ call.op = "validateOdometer" =>
       /\ call.result =
            validatePositiveInteger(call.value, Msg(Label(call.fieldName, "Odometer")),
                                    Options(Number(Num(0)), Number(Num(10000000)), Bool(TRUE)),
                                    locale)
       /\ call.result.isValid <=> AcceptedWithin(call.value, 0, 10000000)
       /\ (call.value \in {Str(<<>>), Null, Undefined} => call.result.value = Null)
       /\ ((call.result.isValid /\ call.result.value # Null) =>
             /\ call.result.value.n.fp = <<>>
             /\ call.result.value.n = parseInt(call.value))
  /\ call.op = "validateYear" =>
       /\ call.result =
            validatePositiveInteger(call.value, Msg(Label(call.fieldName, "Year")),
                                    Options(Number(Num(1900)), Number(Num(call.year + 2)),
                                            Bool(TRUE)),
                                    locale)
       /\ call.result.isValid <=> AcceptedWithin(call.value, 1900, call.year + 2)
       /\ (call.value \in {Str(<<>>), Null, Undefined} => call.result.value = Null)
       /\ ((call.result.isValid /\ call.result.value # Null) =>
             /\ call.result.value.n.fp = <<>>
             /\ call.result.value.n = parseInt(call.value))

\* C10 witness: once the clock has passed into the next year, the year three
\* ahead of the first is accepted, as the upper bound.
C10_Witness ==
  /\ call.op = "validateYear"
  /\ call.year = FirstYear + 1
  /\ call.value = IntStr(FirstYear + 3)
  /\ call.result = Result(TRUE, Number(Num(FirstYear + 3)), Null)

\* C11: only the composite validators touch the sink.  A step that calls a
\* field validator, or passes a year, leaves the sink as it was; a step that
\* calls validatePartCosts or validateBudget appends exactly one warning, its
\* own, when the call returns isValid = false and was given the sink, and
\* leaves the sink as it was when the call returns isValid = true (or was
\* given no sink).
C11_OnlyCompositesWarn ==
  [][ /\ call'.op \in FieldValidators => sink' = sink
      /\ call' = call => (sink' = sink \/ call.op \in CompositeValidators)
      /\ (call'.op \in CompositeValidators /\ (call' # call \/ sink' # sink)) =>
           /\ ~call'.threw
           /\ Len(call'.warned) <= 1
           /\ IF ~call'.result.isValid /\ call'.toast = Toast
              THEN /\ Len(call'.warned) = 1
                   /\ sink' = Append(sink, call'.warned[1])
              ELSE sink' = sink ]_vars

\* C11 witness: a call whose three costs are all invalid has warned once, for
\* the price.
C11_Witness ==
  /\ call.op = "validatePartCosts"
  /\ call.toast = Toast
  /\ call.args = Costs(Str(<<"a", "b", "c">>), Str(<<"-", "5">>), IntStr(MaxCurrency + 1))
  /\ ~call.result.isValid
  /\ sink = <<Msg("Price must be a valid number")>>

\* C12: a mousedown outside the root that meets the dropdown open and not
\* closing starts the close: after it isClosing is true (and the timer that
\* sets isOpen to false is pending).
C12_ClickOutsideCloses ==
  (combo.event = "mousedown outside" /\ combo.met.isOpen /\ ~combo.met.isClosing) =>
    (combo.isClosing /\ combo.timers = 1)

\* C13: the image is visible exactly when the src it carries has loaded: no
\* render shows opacity 1 for a src whose load event has not fired, and once
\* the load event of the current src has fired and the effects have run,
\* isLoaded is true.
C13_VisibleIffLoaded ==
  /\ opacity(image) = 1 => image.loaded
  /\ (image.loaded /\ ~image.effectPending) => image.isLoaded

\* C14: isClosing implies isOpen; a closed dropdown has an empty search
\* term; and at most one close timer is pending, one exactly while
\* isClosing, so a close request that meets a close in progress starts none.
C14_ComboInvariants ==
  /\ combo.isClosing => combo.isOpen
  /\ ~combo.isOpen => combo.searchTerm = <<>>
  /\ combo.timers <= 1
  /\ combo.isClosing <=> combo.timers = 1

\* C14 witness: Escape pressed while the close was already in progress, with
\* a search term typed: still one timer.
C14_Witness ==
  /\ combo.event = "Escape"
  /\ combo.met.isOpen
  /\ combo.met.isClosing
  /\ combo.searchTerm # <<>>
  /\ combo.isClosing
  /\ combo.timers = 1

\* C15: a click invokes no callback while the modal is closed, none while it
\* is open and loading, whatever the target, and a click on the modal content
\* never invokes onCancel.
C15_NoCallbacksWhileClosedOrBusy ==
  modal.click # NoClick =>
    /\ ~modal.click.isOpen => modal.click.invoked = <<>>
    /\ (modal.click.isOpen /\ modal.click.isLoading) => modal.click.invoked = <<>>
    /\ modal.click.target = "content" => modal.click.invoked = <<>>

====
